---- MODULE Spec2Model ----
\* Model of the LiveUpdate reconciler
\* (internal/controllers/core/liveupdate/reconciler.go).
EXTENDS Integers, Sequences, FiniteSets, TLC

\* ---------------------------------------------------------------- bounds

\* Largest number of target containers in one Input.
MaxContainers == 3

\* Largest number of target containers in an Input of concurrent ForceApply calls.
MaxConcContainers == 1

\* The wall clock (apis.NowMicro) runs over 1..MaxTime.
MaxTime == 2

\* Largest number of FileEvents a FileWatch holds before the first Reconcile pass.
MaxInitEvents == 1

\* Largest number of FileEvents the FileWatches come to hold, taken together,
\* while passes run.
MaxEvents == 3

\* The statuses a kubernetes-shaped dependency goes through are 0..MaxStatus.
MaxStatus == 1

\* Largest number of log segments the server of the LogStreamer holds.
MaxSegments == 4

\* ------------------------------------------------------------ processes

\* Concurrent callers of ForceApply.
FAProcs == {"fa1", "fa2"}

\* The controller worker running Reconcile.
RecProc == "rec"

Procs == FAProcs \cup {RecProc}

\* The one LiveUpdate name the model follows.
LUName == "lu"

VARIABLES
    mu,         \* r.mu: "free" or the process holding it
    config,     \* r.updateMode, and what r.DockerUpdater is and can do with r.kubeContext
    now,        \* the wall clock read by apis.NowMicro()
    luExists,   \* the LiveUpdate object is in the store
    lu,         \* its DeletionTimestamp, managed-by annotation and Spec
    luStatus,   \* its stored Status
    fws,        \* the FileWatch objects of the store
    k8s,        \* the KubernetesApply, KubernetesDiscovery and ImageMap objects of the store
    monitors,   \* r.monitors
    index,      \* the keys the indexer holds for the LiveUpdate
    recOut,     \* Reconcile: what the last pass did and returned
    pc,         \* each process's position
    obj,        \* ForceApply: the Status of the object read by client.Get
    inp,        \* ForceApply: the Input (number of containers, LastFileTimeSynced, IsDC)
    cu,         \* applyInternal: the updater containerUpdater returned ("" before it)
    prep,       \* applyInternal: how BoilRuns and MissingLocalPaths ended ("" before them)
    idx,        \* applyInternal: position of the loop over input.Containers
    result,     \* applyInternal: the status built so far; after apply, the computed status
    lastExec,   \* applyInternal: lastExecErrorStatus (0 = nil, else the container)
    calls,      \* the UpdateContainer invocations of the current apply, in order
    ret,        \* ForceApply: what the call returned
    wrote,      \* apply: a Status().Update was issued
    serverLog,  \* the log segments of the server the LogStreamer reads, as manifest names
    ls          \* the LogStreamer: its resources, its checkpoint and what it printed

faVars == <<obj, inp, cu, prep, idx, result, lastExec, calls, ret, wrote>>
envVars == <<luExists, lu, fws, k8s>>
recVars == <<monitors, index, recOut>>
logVars == <<serverLog, ls>>
vars == <<mu, config, now, luStatus, pc, envVars, recVars, faVars, logVars>>

\* ------------------------------------------------------------- statuses

\* v1alpha1.LiveUpdateStateFailed; reason "" stands for a nil pointer.
NoMessage == [what |-> "", pod |-> 0, failPod |-> 0]
NoFailed == [reason |-> "", message |-> NoMessage, time |-> 0]

IsFailed(st) == st.failed.reason # ""

\* The zero v1alpha1.LiveUpdateStatus.
EmptyStatus == [failed |-> NoFailed, containers |-> <<>>]

\* What UpdateContainer can return: nil, a RunStepFailure, any other error.
Outcomes == {"ok", "runfail", "error"}

\* What BoilRuns and MissingLocalPaths can do: both succeed, or one of them fails.
PreOutcomes == {"ok", "boil", "map"}

InvalidStatus(pre) ==
    [failed |-> [reason |-> "Invalid",
                 message |-> [what |-> pre, pod |-> 0, failPod |-> 0],
                 time |-> 0],
     containers |-> <<>>]

\* lastFileTimeSynced of a container status: the input's, or now when it is zero.
SyncedTime(lfts, clock) == IF lfts = 0 THEN clock ELSE lfts

\* UpdateOne with the container's status appended before every return.
UpdateOne_AppendOnAbort(res, lastErr, cid, outcome, synced) ==
    LET cStatus == [id |-> cid, synced |-> synced, execErr |-> (outcome = "runfail")]
        with == [res EXCEPT !.containers = Append(@, cStatus)]
    IN  IF outcome = "runfail"
        THEN [result |-> with, lastExec |-> cid, abort |-> FALSE]
        ELSE IF outcome = "error"
        THEN [result |-> [with EXCEPT !.failed =
                            [reason |-> "UpdateFailed",
                             message |-> [what |-> "pod", pod |-> cid, failPod |-> 0],
                             time |-> 0]],
              lastExec |-> lastErr, abort |-> TRUE]
        ELSE IF lastErr # 0
        THEN [result |-> [with EXCEPT !.failed =
                            [reason |-> "PodsInconsistent",
                             message |-> [what |-> "pods", pod |-> cid, failPod |-> lastErr],
                             time |-> 0]],
              lastExec |-> lastErr, abort |-> TRUE]
        ELSE [result |-> with, lastExec |-> lastErr, abort |-> FALSE]

\* UpdateOne with a run-step failure handled like any other error.
UpdateOne_RunFailAborts(res, lastErr, cid, outcome, synced) ==
    LET cStatus == [id |-> cid, synced |-> synced, execErr |-> FALSE]
    IN  IF outcome # "ok"
        THEN [result |-> [res EXCEPT !.failed =
                            [reason |-> "UpdateFailed",
                             message |-> [what |-> "pod", pod |-> cid, failPod |-> 0],
                             time |-> 0]],
              lastExec |-> lastErr, abort |-> TRUE]
        ELSE [result |-> [res EXCEPT !.containers = Append(@, cStatus)],
              lastExec |-> lastErr, abort |-> FALSE]

\* One iteration of the loop over input.Containers, after UpdateContainer
\* returned `outcome` for container `cid`.
UpdateOne(res, lastErr, cid, outcome, synced) ==
    LET cStatus == [id |-> cid, synced |-> synced, execErr |-> (outcome = "runfail")]
    IN  IF outcome = "runfail"
        THEN [result |-> [res EXCEPT !.containers = Append(@, cStatus)],
              lastExec |-> cid, abort |-> FALSE]
        ELSE IF outcome = "error"
        THEN [result |-> [res EXCEPT !.failed =
                            [reason |-> "UpdateFailed",
                             message |-> [what |-> "pod", pod |-> cid, failPod |-> 0],
                             time |-> 0]],
              lastExec |-> lastErr, abort |-> TRUE]
        ELSE IF lastErr # 0
        THEN [result |-> [res EXCEPT !.failed =
                            [reason |-> "PodsInconsistent",
                             message |-> [what |-> "pods", pod |-> cid, failPod |-> lastErr],
                             time |-> 0]],
              lastExec |-> lastErr, abort |-> TRUE]
        ELSE [result |-> [res EXCEPT !.containers = Append(@, cStatus)],
              lastExec |-> lastErr, abort |-> FALSE]

\* apply: the transition time of a failed status.
TransitionTime(failed, objFailed, clock) ==
    IF objFailed.reason # "" /\ objFailed.reason = failed.reason
    THEN objFailed.time
    ELSE clock

\* apply: the status with its transition time assigned.
WithTransitionTime(st, objStatus, clock) ==
    IF IsFailed(st)
    THEN [st EXCEPT !.failed.time = TransitionTime(st.failed, objStatus.failed, clock)]
    ELSE st

\* NeedsWrite without the comparison: every apply writes.
NeedsWrite_Always(st, objStatus) == TRUE

\* apply: !apicmp.DeepEqual(status, obj.Status)
NeedsWrite(st, objStatus) == st # objStatus

\* CanLock of a caller that does not take the mutex.
CanLock_Always(m) == TRUE

\* sync.Mutex: Lock returns only when nobody holds the mutex.
CanLock(m) == m = "free"

\* ---------------------------------------------------------- ForceApply

\* An Input: its number of Containers, its LastFileTimeSynced (0 when zero)
\* and its IsDC.
NoInput == [n |-> 0, lfts |-> 0, isDC |-> FALSE]
Inputs == [n : 0..MaxContainers, lfts : 0..1, isDC : {FALSE}]

\* The Inputs of concurrent callers, which leave LastFileTimeSynced zero.
ConcInputs == [n : 0..MaxConcContainers, lfts : {0}, isDC : {FALSE}]

\* The Inputs of callers with docker-compose and with cluster targets.
UpdaterInputs == [n : 0..MaxContainers, lfts : {0}, isDC : BOOLEAN]

\* r.updateMode: the two modes containerUpdater names, and "auto" for any other.
UpdateModes == {"auto", "container", "exec"}

\* What NewReconciler was given: the update mode, whether r.DockerUpdater is a
\* *containerupdate.DockerUpdater, and what its WillBuildToKubeContext answers
\* for r.kubeContext.
Configs == [updateMode : UpdateModes, isDockerUpdater : BOOLEAN, willBuildToKubeContext : BOOLEAN]

\* containerUpdater trying the update mode before IsDC.
containerUpdater_ModeFirst(input, cfg) ==
    IF cfg.updateMode = "exec" THEN "exec"
    ELSE IF input.isDC \/ cfg.updateMode = "container" THEN "docker"
    ELSE IF cfg.isDockerUpdater /\ cfg.willBuildToKubeContext THEN "docker"
    ELSE "exec"

\* containerUpdater: "docker" for r.DockerUpdater, "exec" for r.ExecUpdater.
containerUpdater(input, cfg) ==
    IF input.isDC \/ cfg.updateMode = "container" THEN "docker"
    ELSE IF cfg.updateMode = "exec" THEN "exec"
    ELSE IF cfg.isDockerUpdater /\ cfg.willBuildToKubeContext THEN "docker"
    ELSE "exec"
NoRet == [done |-> FALSE, err |-> FALSE]

\* ForceApply up to r.mu.Lock(): client.Get of the object, outside the lock.
FAGet(p, inputs) ==
    /\ pc[p] = "idle"
    /\ \E input \in inputs, getErr \in BOOLEAN :
        IF getErr \/ ~luExists
        THEN /\ ret' = [ret EXCEPT ![p] = [done |-> TRUE, err |-> TRUE]]
             /\ UNCHANGED <<pc, obj, inp>>
        ELSE /\ pc' = [pc EXCEPT ![p] = "got"]
             /\ obj' = [obj EXCEPT ![p] = luStatus]
             /\ inp' = [inp EXCEPT ![p] = input]
             /\ ret' = [ret EXCEPT ![p] = NoRet]
    /\ cu' = [cu EXCEPT ![p] = ""]
    /\ prep' = [prep EXCEPT ![p] = ""]
    /\ idx' = [idx EXCEPT ![p] = 0]
    /\ result' = [result EXCEPT ![p] = EmptyStatus]
    /\ lastExec' = [lastExec EXCEPT ![p] = 0]
    /\ calls' = [calls EXCEPT ![p] = <<>>]
    /\ wrote' = [wrote EXCEPT ![p] = FALSE]
    /\ UNCHANGED <<config, logVars, mu, now, luStatus, envVars, recVars>>

\* r.mu.Lock() in ForceApply.
FALock(p) ==
    /\ pc[p] = "got"
    /\ CanLock(mu)
    /\ mu' = p
    /\ pc' = [pc EXCEPT ![p] = "locked"]
    /\ UNCHANGED <<config, logVars, now, luStatus, envVars, recVars, faVars>>

\* BeginApply that records the Invalid failure and goes on to the loop.
BeginApply_KeepGoing(pre, n) ==
    [result |-> IF pre # "ok" THEN InvalidStatus(pre) ELSE EmptyStatus,
     next |-> IF n = 0 THEN "applied" ELSE "loop"]

\* applyInternal up to the loop: what it has built and where it goes after
\* BoilRuns and MissingLocalPaths ended as `pre`, with n target containers.
BeginApply(pre, n) ==
    IF pre # "ok"
    THEN [result |-> InvalidStatus(pre), next |-> "applied"]
    ELSE [result |-> EmptyStatus, next |-> IF n = 0 THEN "applied" ELSE "loop"]

\* applyInternal up to the loop: containerUpdater, BoilRuns and MissingLocalPaths.
FABegin(p) ==
    /\ pc[p] = "locked"
    /\ cu' = [cu EXCEPT ![p] = containerUpdater(inp[p], config)]
    /\ \E pre \in PreOutcomes :
        /\ prep' = [prep EXCEPT ![p] = pre]
        /\ result' = [result EXCEPT ![p] = BeginApply(pre, inp[p].n).result]
        /\ pc' = [pc EXCEPT ![p] = BeginApply(pre, inp[p].n).next]
        /\ idx' = [idx EXCEPT ![p] = 1]
    /\ UNCHANGED <<config, logVars, mu, now, luStatus, envVars, recVars, obj, inp, lastExec, calls, ret, wrote>>

\* One iteration of the loop of applyInternal: UpdateContainer on the next container.
FAUpdateContainer(p) ==
    /\ pc[p] = "loop"
    /\ \E outcome \in Outcomes :
        LET r == UpdateOne(result[p], lastExec[p], idx[p], outcome,
                           SyncedTime(inp[p].lfts, now))
        IN  /\ result' = [result EXCEPT ![p] = r.result]
            /\ lastExec' = [lastExec EXCEPT ![p] = r.lastExec]
            /\ calls' = [calls EXCEPT ![p] =
                            Append(@, [id |-> idx[p], outcome |-> outcome, updater |-> cu[p]])]
            /\ idx' = [idx EXCEPT ![p] = @ + 1]
            /\ pc' = [pc EXCEPT ![p] =
                        IF r.abort \/ idx[p] = inp[p].n THEN "applied" ELSE "loop"]
    /\ UNCHANGED <<config, logVars, mu, now, luStatus, envVars, recVars, obj, inp, cu, prep, ret, wrote>>

\* The bookkeeping of apply that takes the stored monitor when it was given none.
UpdateMonitorContainers_Stored(ms, given, status) ==
    [ms EXCEPT ![LUName].containers =
        {c \in @ : \A i \in 1..Len(status.containers) : status.containers[i].id # c.id}
        \cup {[id |-> status.containers[i].id,
               lastFileTimeSynced |-> status.containers[i].synced,
               unrecoverable |-> IsFailed(status)] : i \in 1..Len(status.containers)}]

\* The bookkeeping of apply: with a monitor given (`given`; nil otherwise),
\* an entry of monitor.containers for every container of the status.
UpdateMonitorContainers(ms, given, status) ==
    IF given
    THEN [ms EXCEPT ![LUName].containers =
            {c \in @ : \A i \in 1..Len(status.containers) : status.containers[i].id # c.id}
            \cup {[id |-> status.containers[i].id,
                   lastFileTimeSynced |-> status.containers[i].synced,
                   unrecoverable |-> IsFailed(status)] : i \in 1..Len(status.containers)}]
    ELSE ms

\* apply after applyInternal returned: the bookkeeping of the monitor, of which
\* ForceApply passes none (nil), and the transition time.
FAStamp(p) ==
    /\ pc[p] = "applied"
    /\ monitors' = UpdateMonitorContainers(monitors, FALSE, result[p])
    /\ result' = [result EXCEPT ![p] = WithTransitionTime(result[p], obj[p], now)]
    /\ pc' = [pc EXCEPT ![p] = "stamped"]
    /\ UNCHANGED <<config, logVars, mu, now, luStatus, envVars, index, recOut, obj, inp, cu, prep,
                   idx, lastExec, calls, ret, wrote>>

\* The rest of apply: the comparison with obj.Status and the status write; then
\* the deferred Unlock and the return, which ends the life of the call's locals.
FAWrite(p) ==
    /\ pc[p] = "stamped"
    /\ IF NeedsWrite(result[p], obj[p])
       THEN /\ wrote' = [wrote EXCEPT ![p] = TRUE]
            /\ \E updateErr \in BOOLEAN :
                 /\ luStatus' = IF updateErr THEN luStatus ELSE result[p]
                 /\ ret' = [ret EXCEPT ![p] = [done |-> TRUE, err |-> updateErr]]
       ELSE /\ wrote' = wrote
            /\ luStatus' = luStatus
            /\ ret' = [ret EXCEPT ![p] = [done |-> TRUE, err |-> FALSE]]
    /\ obj' = [obj EXCEPT ![p] = EmptyStatus]
    /\ result' = [result EXCEPT ![p] = EmptyStatus]
    /\ inp' = [inp EXCEPT ![p] = NoInput]
    /\ cu' = [cu EXCEPT ![p] = ""]
    /\ prep' = [prep EXCEPT ![p] = ""]
    /\ idx' = [idx EXCEPT ![p] = 0]
    /\ lastExec' = [lastExec EXCEPT ![p] = 0]
    /\ calls' = [calls EXCEPT ![p] = <<>>]
    /\ mu' = "free"
    /\ pc' = [pc EXCEPT ![p] = "idle"]
    /\ UNCHANGED <<config, logVars, now, envVars, recVars>>

\* The wall clock advances.
Tick ==
    /\ now < MaxTime
    /\ now' = now + 1
    /\ UNCHANGED <<config, logVars, mu, luStatus, pc, envVars, recVars, faVars>>

\* ------------------------------------------------- the store's objects

FWNames == {"fw1", "fw2"}
Paths == {"/a", "/b"}

\* The three kubernetes-shaped dependency kinds, one object of each.
KKinds == {"apply", "discovery", "image"}

\* v1alpha1.LiveUpdateSpec: FileWatchNames and Selector.Kubernetes (nil when
\* `kubernetes` is FALSE) with its ApplyName, DiscoveryName and ImageMapName.
SpecFiles ==
    [fileWatchNames |-> <<"fw1">>, kubernetes |-> FALSE,
     applyName |-> "", discoveryName |-> "", imageMapName |-> ""]
SpecAll ==
    [fileWatchNames |-> <<"fw1", "fw2">>, kubernetes |-> TRUE,
     applyName |-> "ka", discoveryName |-> "kd", imageMapName |-> "im"]
SpecDiscovery ==
    [fileWatchNames |-> <<>>, kubernetes |-> TRUE,
     applyName |-> "", discoveryName |-> "kd", imageMapName |-> ""]
LUSpecs == {SpecFiles, SpecAll, SpecDiscovery}

\* v1alpha1.FileEvent; NoEvent stands for a nil pointer.
NoEvent == [time |-> 0, files |-> <<>>]
FileEvents == [time : 1..MaxTime, files : {<<"/a">>, <<"/b", "/a">>}]

\* The event lists of up to `most` events a FileWatch can report.
EventLists(most) ==
    UNION {[1..n -> FileEvents] : n \in 0..most}

\* A status snapshot the monitor holds no value for (a nil pointer).
NoSnapshot == -1

\* What client.Get returns for an object: a transport error for the objects of
\* `errs`, not-found for an absent one.
Fetch(name, exists, errs) ==
    IF name \in errs THEN "error" ELSE IF ~exists THEN "notfound" ELSE "ok"

\* ---------------------------------------------------------- the monitor

NewMonitor(spec) ==
    [present |-> TRUE,
     spec |-> spec,
     modTimeByPath |-> [f \in Paths |-> 0],
     lastFileEvents |-> [w \in FWNames |-> NoEvent],
     consumedEvents |-> {},
     lastKubernetesApplyStatus |-> NoSnapshot,
     lastKubernetesDiscovery |-> NoSnapshot,
     lastImageMapStatus |-> NoSnapshot,
     containers |-> {},
     hasChangesToSync |-> FALSE]

\* (consumedEvents is not a field of the code's monitor: it keeps, for the
\* claims, the events the loops of reconcileOneFileWatch have gone through.)

\* No entry of r.monitors under the name.
NoMonitor == [NewMonitor(SpecFiles) EXCEPT !.present = FALSE]

\* ensureMonitorExists that keeps the stored monitor under a changed spec.
ensureMonitorExists_KeepState(m, spec) ==
    IF m.present THEN [m EXCEPT !.spec = spec] ELSE NewMonitor(spec)

ensureMonitorExists(m, spec) ==
    IF m.present /\ spec = m.spec THEN m ELSE NewMonitor(spec)

\* The inner loop of reconcileOneFileWatch storing the time of every event it
\* goes through, later or not.
RECURSIVE ConsumeFiles_Overwrite(_, _, _)
ConsumeFiles_Overwrite(modTimes, files, t) ==
    IF files = <<>> THEN modTimes
    ELSE ConsumeFiles_Overwrite([modTimes EXCEPT ![Head(files)] = t], Tail(files), t)

\* The inner loop of reconcileOneFileWatch: the files of one event.
RECURSIVE ConsumeFiles(_, _, _)
ConsumeFiles(modTimes, files, t) ==
    IF files = <<>> THEN modTimes
    ELSE LET f == Head(files)
         IN  ConsumeFiles(
                IF modTimes[f] = 0 \/ modTimes[f] < t
                THEN [modTimes EXCEPT ![f] = t] ELSE modTimes,
                Tail(files), t)

\* The outer loop of reconcileOneFileWatch: every event of the list.
RECURSIVE ConsumeEvents(_, _)
ConsumeEvents(modTimes, events) ==
    IF events = <<>> THEN modTimes
    ELSE ConsumeEvents(ConsumeFiles(modTimes, Head(events).files, Head(events).time),
                       Tail(events))

\* reconcileOneFileWatch without the comparison with the recorded last event.
reconcileOneFileWatch_NoCompare(m, fwn, errs) ==
    LET res == Fetch(fwn, fws[fwn].exists, errs)
        events == fws[fwn].events
        fetched == <<[obj |-> fwn, res |-> res]>>
    IN  IF res # "ok" \/ Len(events) = 0
        THEN [monitor |-> m, changed |-> FALSE, err |-> (res = "error"), fetched |-> fetched]
        ELSE [monitor |-> [m EXCEPT !.lastFileEvents[fwn] = events[Len(events)],
                                    !.modTimeByPath = ConsumeEvents(@, events),
                                    !.consumedEvents =
                                        @ \cup {events[i] : i \in 1..Len(events)}],
              changed |-> TRUE, err |-> FALSE, fetched |-> fetched]

\* reconcileOneFileWatch returning the error of Get as it is, not-found included.
reconcileOneFileWatch_NotFoundIsError(m, fwn, errs) ==
    [monitor |-> m, changed |-> FALSE,
     err |-> Fetch(fwn, fws[fwn].exists, errs) # "ok",
     fetched |-> <<[obj |-> fwn, res |-> Fetch(fwn, fws[fwn].exists, errs)]>>]

reconcileOneFileWatch(m, fwn, errs) ==
    LET res == Fetch(fwn, fws[fwn].exists, errs)
        events == fws[fwn].events
        newLastFileEvent == events[Len(events)]
        fetched == <<[obj |-> fwn, res |-> res]>>
    IN  IF res # "ok"
        THEN [monitor |-> m, changed |-> FALSE, err |-> (res = "error"), fetched |-> fetched]
        ELSE IF Len(events) = 0
        THEN [monitor |-> m, changed |-> FALSE, err |-> FALSE, fetched |-> fetched]
        ELSE IF m.lastFileEvents[fwn] # NoEvent /\ newLastFileEvent = m.lastFileEvents[fwn]
        THEN [monitor |-> m, changed |-> FALSE, err |-> FALSE, fetched |-> fetched]
        ELSE [monitor |-> [m EXCEPT !.lastFileEvents[fwn] = newLastFileEvent,
                                    !.modTimeByPath = ConsumeEvents(@, events),
                                    !.consumedEvents =
                                        @ \cup {events[i] : i \in 1..Len(events)}],
              changed |-> TRUE, err |-> FALSE, fetched |-> fetched]

\* The loop of reconcileFileWatches over the names still to visit.
RECURSIVE FileWatchLoop(_, _, _, _, _)
FileWatchLoop(m, names, hasChange, fetched, errs) ==
    IF names = <<>>
    THEN [monitor |-> m, changed |-> hasChange, err |-> FALSE, fetched |-> fetched]
    ELSE LET one == reconcileOneFileWatch(m, Head(names), errs)
         IN  IF one.err
             THEN [monitor |-> one.monitor, changed |-> FALSE, err |-> TRUE,
                   fetched |-> fetched \o one.fetched]
             ELSE FileWatchLoop(one.monitor, Tail(names), hasChange \/ one.changed,
                                fetched \o one.fetched, errs)

reconcileFileWatches(m, errs) ==
    FileWatchLoop(m, m.spec.fileWatchNames, FALSE, <<>>, errs)

\* One of the three stanzas of reconcileKubernetesResource: the Get of the
\* dependency of `kind` named `name`, and the comparison with the snapshot `last`.
KubernetesFetch(kind, name, last, errs) ==
    IF name = ""
    THEN [res |-> "skip", changed |-> FALSE, fetched |-> <<>>]
    ELSE LET res == Fetch(name, k8s[kind].exists, errs)
         IN  [res |-> res,
              changed |-> res = "ok" /\ (last = NoSnapshot \/ last # k8s[kind].status),
              fetched |-> <<[obj |-> name, res |-> res]>>]

\* reconcileKubernetesResource that skips a dependency that is not-found and
\* goes on to the next kind.
reconcileKubernetesResource_SkipNotFound(m, errs) ==
    LET ka == KubernetesFetch("apply", m.spec.applyName, m.lastKubernetesApplyStatus, errs)
        kd == KubernetesFetch("discovery", m.spec.discoveryName, m.lastKubernetesDiscovery, errs)
        im == KubernetesFetch("image", m.spec.imageMapName, m.lastImageMapStatus, errs)
        Snap(f, kind) == IF f.res = "ok" THEN k8s[kind].status ELSE NoSnapshot
    IN  IF ~m.spec.kubernetes
        THEN [monitor |-> m, changed |-> FALSE, err |-> FALSE, fetched |-> <<>>]
        ELSE IF "error" \in {ka.res, kd.res, im.res}
        THEN [monitor |-> m, changed |-> FALSE, err |-> TRUE,
              fetched |-> ka.fetched \o kd.fetched \o im.fetched]
        ELSE [monitor |-> [m EXCEPT !.lastImageMapStatus = Snap(im, "image"),
                                    !.lastKubernetesApplyStatus = Snap(ka, "apply"),
                                    !.lastKubernetesDiscovery = Snap(kd, "discovery")],
              changed |-> ka.changed \/ kd.changed \/ im.changed,
              err |-> FALSE,
              fetched |-> ka.fetched \o kd.fetched \o im.fetched]

\* reconcileKubernetesResource that keeps a snapshot it already holds.
reconcileKubernetesResource_KeepSnapshots(m, errs) ==
    LET ka == KubernetesFetch("apply", m.spec.applyName, m.lastKubernetesApplyStatus, errs)
        kd == KubernetesFetch("discovery", m.spec.discoveryName, m.lastKubernetesDiscovery, errs)
        im == KubernetesFetch("image", m.spec.imageMapName, m.lastImageMapStatus, errs)
        Snap(f, kind, last) ==
            IF f.res = "skip" THEN NoSnapshot
            ELSE IF last = NoSnapshot THEN k8s[kind].status ELSE last
        Stop(f) == f.res \in {"error", "notfound"}
    IN  IF ~m.spec.kubernetes \/ Stop(ka) \/ Stop(kd) \/ Stop(im)
        THEN [monitor |-> m, changed |-> FALSE,
              err |-> m.spec.kubernetes /\ "error" \in {ka.res, kd.res, im.res},
              fetched |-> IF m.spec.kubernetes
                          THEN ka.fetched \o kd.fetched \o im.fetched ELSE <<>>]
        ELSE [monitor |-> [m EXCEPT
                  !.lastImageMapStatus = Snap(im, "image", @),
                  !.lastKubernetesApplyStatus = Snap(ka, "apply", @),
                  !.lastKubernetesDiscovery = Snap(kd, "discovery", @)],
              changed |-> ka.changed \/ kd.changed \/ im.changed,
              err |-> FALSE,
              fetched |-> ka.fetched \o kd.fetched \o im.fetched]

reconcileKubernetesResource(m, errs) ==
    LET ka == KubernetesFetch("apply", m.spec.applyName, m.lastKubernetesApplyStatus, errs)
        kd == KubernetesFetch("discovery", m.spec.discoveryName, m.lastKubernetesDiscovery, errs)
        im == KubernetesFetch("image", m.spec.imageMapName, m.lastImageMapStatus, errs)
        Snap(f, kind) == IF f.res = "skip" THEN NoSnapshot ELSE k8s[kind].status
        Stop(f) == f.res \in {"error", "notfound"}
    IN  IF ~m.spec.kubernetes
        THEN [monitor |-> m, changed |-> FALSE, err |-> FALSE, fetched |-> <<>>]
        ELSE IF Stop(ka)
        THEN [monitor |-> m, changed |-> FALSE, err |-> (ka.res = "error"),
              fetched |-> ka.fetched]
        ELSE IF Stop(kd)
        THEN [monitor |-> m, changed |-> FALSE, err |-> (kd.res = "error"),
              fetched |-> ka.fetched \o kd.fetched]
        ELSE IF Stop(im)
        THEN [monitor |-> m, changed |-> FALSE, err |-> (im.res = "error"),
              fetched |-> ka.fetched \o kd.fetched \o im.fetched]
        ELSE [monitor |-> [m EXCEPT !.lastImageMapStatus = Snap(im, "image"),
                                    !.lastKubernetesApplyStatus = Snap(ka, "apply"),
                                    !.lastKubernetesDiscovery = Snap(kd, "discovery")],
              changed |-> ka.changed \/ kd.changed \/ im.changed,
              err |-> FALSE,
              fetched |-> ka.fetched \o kd.fetched \o im.fetched]

\* maybeSync returning an error.
maybeSync_Fails(m) ==
    [monitor |-> m, err |-> TRUE, applyCalls |-> 0, mutations |-> <<>>]

\* maybeSync: returns nil; it starts no apply and touches no container.
maybeSync(m) ==
    [monitor |-> m, err |-> FALSE, applyCalls |-> 0, mutations |-> <<>>]

\* The Spec of the zero LiveUpdate a failed client.Get leaves behind.
EmptySpec ==
    [fileWatchNames |-> <<>>, kubernetes |-> FALSE,
     applyName |-> "", discoveryName |-> "", imageMapName |-> ""]

\* indexLiveUpdate without the stanza of the ImageMap.
indexLiveUpdate_NoImageMap(spec) ==
    [i \in 1..Len(spec.fileWatchNames) |-> [kind |-> "FileWatch", name |-> spec.fileWatchNames[i]]]
    \o (IF spec.kubernetes /\ spec.discoveryName # ""
        THEN <<[kind |-> "KubernetesDiscovery", name |-> spec.discoveryName]>> ELSE <<>>)
    \o (IF spec.kubernetes /\ spec.applyName # ""
        THEN <<[kind |-> "KubernetesApply", name |-> spec.applyName]>> ELSE <<>>)

\* The keys indexLiveUpdate returns for a LiveUpdate with the given spec.
indexLiveUpdate(spec) ==
    [i \in 1..Len(spec.fileWatchNames) |-> [kind |-> "FileWatch", name |-> spec.fileWatchNames[i]]]
    \o (IF spec.kubernetes /\ spec.discoveryName # ""
        THEN <<[kind |-> "KubernetesDiscovery", name |-> spec.discoveryName]>> ELSE <<>>)
    \o (IF spec.kubernetes /\ spec.applyName # ""
        THEN <<[kind |-> "KubernetesApply", name |-> spec.applyName]>> ELSE <<>>)
    \o (IF spec.kubernetes /\ spec.imageMapName # ""
        THEN <<[kind |-> "ImageMap", name |-> spec.imageMapName]>> ELSE <<>>)

\* ------------------------------------------------------------ Reconcile

\* The names a transport error can hit.
ObjNames == {"lu", "fw1", "fw2", "ka", "kd", "im"}

NoRecOut ==
    [done |-> FALSE, err |-> FALSE, branch |-> "", fetched |-> <<>>, dispatched |-> "",
     hasFileChanges |-> FALSE, hasKubernetesChanges |-> FALSE,
     synced |-> FALSE, applyCalls |-> 0, mutations |-> <<>>,
     hadMonitor |-> FALSE, startedEmpty |-> FALSE, consumed |-> FALSE,
     discarded |-> FALSE]

\* r.mu.Lock() in Reconcile.
RecLock ==
    /\ pc[RecProc] = "idle"
    /\ CanLock(mu)
    /\ mu' = RecProc
    /\ pc' = [pc EXCEPT ![RecProc] = "locked"]
    /\ recOut' = NoRecOut
    /\ UNCHANGED <<config, logVars, now, luStatus, envVars, monitors, index, faVars>>

\* The part of an Active pass after ensureMonitorExists, on the monitor m0.
ActivePass(m0, errs) ==
    LET fw == reconcileFileWatches(m0, errs)
        kr == reconcileKubernetesResource(fw.monitor, errs)
        m1 == IF fw.changed \/ kr.changed
              THEN [kr.monitor EXCEPT !.hasChangesToSync = TRUE] ELSE kr.monitor
        sy == maybeSync(m1)
        out == [NoRecOut EXCEPT !.done = TRUE, !.branch = "active", !.dispatched = "upsert",
                                !.startedEmpty = (m0 = NewMonitor(m0.spec)),
                                !.consumed = (fw.monitor # m0 \/ kr.changed)]
    IN  IF fw.err
        THEN [monitor |-> fw.monitor,
              out |-> [out EXCEPT !.err = TRUE, !.fetched = fw.fetched]]
        ELSE IF kr.err
        THEN [monitor |-> kr.monitor,
              out |-> [out EXCEPT !.err = TRUE, !.fetched = fw.fetched \o kr.fetched,
                                  !.hasFileChanges = fw.changed]]
        ELSE IF m1.hasChangesToSync /\ sy.err
        THEN [monitor |-> sy.monitor,
              out |-> [out EXCEPT !.err = TRUE, !.fetched = fw.fetched \o kr.fetched,
                                  !.hasFileChanges = fw.changed,
                                  !.hasKubernetesChanges = kr.changed,
                                  !.synced = TRUE, !.applyCalls = sy.applyCalls,
                                  !.mutations = sy.mutations]]
        ELSE [monitor |-> [(IF m1.hasChangesToSync THEN sy.monitor ELSE m1)
                              EXCEPT !.hasChangesToSync = FALSE],
              out |-> [out EXCEPT !.fetched = fw.fetched \o kr.fetched,
                                  !.hasFileChanges = fw.changed,
                                  !.hasKubernetesChanges = kr.changed,
                                  !.synced = m1.hasChangesToSync,
                                  !.applyCalls = IF m1.hasChangesToSync THEN sy.applyCalls ELSE 0,
                                  !.mutations = IF m1.hasChangesToSync THEN sy.mutations ELSE <<>>]]

\* delete(r.monitors, req.Name) that leaves the entry in the table.
DeleteMonitor_Keep(ms, name) == ms

\* delete(r.monitors, req.Name)
DeleteMonitor(ms, name) == [ms EXCEPT ![name] = NoMonitor]

\* The managed-by test that takes every LiveUpdate for the reconciler's own.
ManagedBy_Never(l) == FALSE

\* lu.Annotations[v1alpha1.AnnotationManagedBy] != ""
ManagedBy(l) == l.managed

\* Reconcile after r.mu.Lock(), to its return and the deferred Unlock, with
\* transport errors hitting some of the objects of `names`.
RecBodyOver(names) ==
    /\ pc[RecProc] = "locked"
    /\ \E errs \in SUBSET names :
        LET res == Fetch("lu", luExists, errs)
            luFetched == <<[obj |-> "lu", res |-> res]>>
            pass == ActivePass(ensureMonitorExists(monitors[LUName], lu.spec), errs)
        IN  /\ index' = indexLiveUpdate(IF res = "ok" THEN lu.spec ELSE EmptySpec)
            /\ IF res = "error"
               THEN /\ recOut' = [NoRecOut EXCEPT !.done = TRUE, !.err = TRUE,
                                     !.branch = "error", !.fetched = luFetched,
                                     !.hadMonitor = monitors[LUName].present]
                    /\ monitors' = monitors
               ELSE IF res = "notfound" \/ lu.deleted
               THEN /\ recOut' = [NoRecOut EXCEPT !.done = TRUE, !.branch = "deleted",
                                     !.fetched = luFetched, !.dispatched = "delete",
                                     !.hadMonitor = monitors[LUName].present]
                    /\ monitors' = DeleteMonitor(monitors, LUName)
               ELSE IF ManagedBy(lu)
               THEN /\ recOut' = [NoRecOut EXCEPT !.done = TRUE, !.branch = "managed",
                                     !.fetched = luFetched, !.dispatched = "upsert",
                                     !.hadMonitor = monitors[LUName].present]
                    /\ monitors' = monitors
               ELSE /\ recOut' = [pass.out EXCEPT
                                     !.fetched = luFetched \o @,
                                     !.hadMonitor = monitors[LUName].present,
                                     !.discarded =
                                         /\ monitors[LUName].present
                                         /\ monitors[LUName].spec # lu.spec
                                         /\ \E w \in FWNames :
                                              monitors[LUName].lastFileEvents[w] # NoEvent]
                    /\ monitors' = [monitors EXCEPT ![LUName] = pass.monitor]
    /\ mu' = "free"
    /\ pc' = [pc EXCEPT ![RecProc] = "idle"]
    /\ UNCHANGED <<config, logVars, now, luStatus, envVars, faVars>>

\* Reconcile after r.mu.Lock(): any of its fetches can fail.
RecBody == RecBodyOver(ObjNames)

\* ------------------------------------------------------ the apiserver

\* The LiveUpdate objects client.Get can find under the name: any metadata
\* and any of the specs.
LiveUpdates == [deleted : BOOLEAN, managed : BOOLEAN, spec : LUSpecs]
NoLiveUpdate == [deleted |-> FALSE, managed |-> FALSE, spec |-> SpecFiles]

\* The apiserver changes the LiveUpdate between two fetches: the object is
\* created, replaced, annotated, marked for deletion or removed.
EnvLiveUpdate ==
    /\ \E e \in BOOLEAN, l \in LiveUpdates :
        /\ ~e => l = NoLiveUpdate
        /\ <<e, l>> # <<luExists, lu>>
        /\ luExists' = e
        /\ lu' = l
    /\ UNCHANGED <<config, logVars, mu, now, luStatus, pc, fws, k8s, recVars, faVars>>

\* The apiserver changes a kubernetes-shaped dependency between two fetches:
\* the object is created, gets another status, or is removed.
EnvKubernetes ==
    /\ \E k \in KKinds, o \in [exists : BOOLEAN, status : 0..MaxStatus] :
        /\ ~o.exists => o.status = 0
        /\ o # k8s[k]
        /\ k8s' = [k8s EXCEPT ![k] = o]
    /\ UNCHANGED <<config, logVars, mu, now, luStatus, pc, luExists, lu, fws, recVars, faVars>>

\* The FileEvents the FileWatches hold, taken together.
RECURSIVE EventCount(_)
EventCount(watches) ==
    IF watches = {} THEN 0
    ELSE LET w == CHOOSE x \in watches : TRUE
         IN  Len(fws[w].events) + EventCount(watches \ {w})

\* The apiserver changes a FileWatch between two fetches: the object is
\* created with no event yet, or its status gets one more FileEvent.
EnvFileWatch ==
    /\ \E w \in FWNames :
        \/ /\ ~fws[w].exists
           /\ fws' = [fws EXCEPT ![w] = [exists |-> TRUE, events |-> <<>>]]
        \/ /\ fws[w].exists
           /\ EventCount(FWNames) < MaxEvents
           /\ \E e \in FileEvents : fws' = [fws EXCEPT ![w].events = Append(@, e)]
    /\ UNCHANGED <<config, logVars, mu, now, luStatus, pc, luExists, lu, k8s, recVars, faVars>>

\* -------------------------------------------------------- LogStreamer

\* The manifest names of log spans; "" is the span of no manifest.
ManifestNames == {"foo", "bar", ""}

\* NewLogStreamer, with the resource names of withResourceNames (none: no filter).
NewLogStreamer(resources) ==
    [resources |-> resources, checkpoint |-> 0, printed |-> <<>>,
     lastView |-> [from |-> 0, to |-> 0]]

\* The View whose LogList runs from one checkpoint of the server's log to
\* another: its segments, each with its place in the log and its manifest.
ViewOf(log, from, to) ==
    [from |-> from, to |-> to,
     segments |-> [i \in 1..(to - from) |-> [at |-> from + i, manifestName |-> log[from + i]]]]

\* A segment passes the filter of resource names (no names: no filter).
Shown(resources, seg) == resources = {} \/ seg.manifestName \in resources

\* The segments of a sequence that pass the filter, in order.
RECURSIVE Filtered(_, _)
Filtered(resources, segs) ==
    IF segs = <<>> THEN <<>>
    ELSE (IF Shown(resources, Head(segs)) THEN <<Head(segs)>> ELSE <<>>)
         \o Filtered(resources, Tail(segs))

\* Handle that prints every segment of the view, re-sent ones included.
Handle_PrintAll(streamer, view) ==
    [streamer EXCEPT !.checkpoint = view.to,
                     !.printed = @ \o Filtered(streamer.resources, view.segments),
                     !.lastView = [from |-> view.from, to |-> view.to]]

\* LogStreamer.Handle: the segments below the streamer's checkpoint are
\* dropped, the rest is printed through the filter, and the checkpoint moves
\* to the view's ToCheckpoint.
Handle(streamer, view) ==
    LET deleteCount == IF view.from < streamer.checkpoint
                       THEN streamer.checkpoint - view.from ELSE 0
        segments == SubSeq(view.segments, deleteCount + 1, Len(view.segments))
    IN  [streamer EXCEPT !.checkpoint = view.to,
                         !.printed = @ \o Filtered(streamer.resources, segments),
                         !.lastView = [from |-> view.from, to |-> view.to]]

\* The server logs one more segment.
LogAppend ==
    /\ Len(serverLog) < MaxSegments
    /\ \E mn \in ManifestNames : serverLog' = Append(serverLog, mn)
    /\ UNCHANGED <<config, mu, now, luStatus, pc, envVars, recVars, faVars, ls>>

\* The server sends a view of its log from a checkpoint the streamer has
\* reached, or from an earlier one, up to the end; the streamer handles it.
LogHandle ==
    /\ \E from \in 0..ls.checkpoint :
        ls' = Handle(ls, ViewOf(serverLog, from, Len(serverLog)))
    /\ UNCHANGED <<config, mu, now, luStatus, pc, envVars, recVars, faVars, serverLog>>

\* ------------------------------------------------------- specification

\* A Reconciler in the automatic update mode whose Docker updater does not
\* build to the kube context.
DefaultConfig ==
    [updateMode |-> "auto", isDockerUpdater |-> TRUE, willBuildToKubeContext |-> FALSE]

\* The state of a Reconciler after NewReconciler, with no call in progress.
InitProgram ==
    /\ mu = "free"
    /\ monitors = [n \in {LUName} |-> NoMonitor]
    /\ index = <<>>
    /\ recOut = NoRecOut
    /\ pc = [p \in Procs |-> "idle"]
    /\ obj = [p \in FAProcs |-> EmptyStatus]
    /\ inp = [p \in FAProcs |-> NoInput]
    /\ cu = [p \in FAProcs |-> ""]
    /\ prep = [p \in FAProcs |-> ""]
    /\ idx = [p \in FAProcs |-> 0]
    /\ result = [p \in FAProcs |-> EmptyStatus]
    /\ lastExec = [p \in FAProcs |-> 0]
    /\ calls = [p \in FAProcs |-> <<>>]
    /\ ret = [p \in FAProcs |-> NoRet]
    /\ wrote = [p \in FAProcs |-> FALSE]

\* A LogStreamer with no filter that has been sent nothing.
InitNoLogs ==
    /\ serverLog = <<>>
    /\ ls = NewLogStreamer({})

\* The store holding one Active LiveUpdate whose FileWatch has reported one event.
InitStore ==
    /\ now = 1
    /\ luExists = TRUE
    /\ lu = [deleted |-> FALSE, managed |-> FALSE, spec |-> SpecFiles]
    /\ luStatus = EmptyStatus
    /\ fws = [w \in FWNames |->
                [exists |-> w = "fw1",
                 events |-> IF w = "fw1" THEN <<[time |-> 1, files |-> <<"/a">>]>> ELSE <<>>]]
    /\ k8s = [k \in KKinds |-> [exists |-> FALSE, status |-> 0]]

\* A store holding one Active LiveUpdate whose FileWatch has reported one event.
Init ==
    /\ config = DefaultConfig
    /\ InitStore
    /\ InitProgram
    /\ InitNoLogs

\* One caller of ForceApply at a time, over batches of up to MaxContainers containers.
Next ==
    \/ FAGet("fa1", Inputs)
    \/ FALock("fa1")
    \/ FABegin("fa1")
    \/ FAUpdateContainer("fa1")
    \/ FAStamp("fa1")
    \/ FAWrite("fa1")
    \/ Tick

Spec == Init /\ [][Next]_vars

\* Concurrent callers of ForceApply, over batches of up to MaxConcContainers containers.
NextConc ==
    \/ \E p \in FAProcs : FAGet(p, ConcInputs)
    \/ \E p \in FAProcs : FALock(p)
    \/ \E p \in FAProcs : FABegin(p)
    \/ \E p \in FAProcs : FAUpdateContainer(p)
    \/ \E p \in FAProcs : FAStamp(p)
    \/ \E p \in FAProcs : FAWrite(p)
    \/ Tick

SpecConc == Init /\ [][NextConc]_vars

\* Concurrent callers of ForceApply and the controller's Reconcile passes.
NextLock ==
    \/ \E p \in FAProcs : FAGet(p, ConcInputs)
    \/ \E p \in FAProcs : FALock(p)
    \/ \E p \in FAProcs : FABegin(p)
    \/ \E p \in FAProcs : FAUpdateContainer(p)
    \/ \E p \in FAProcs : FAStamp(p)
    \/ \E p \in FAProcs : FAWrite(p)
    \/ RecLock
    \/ RecBody

SpecLock == Init /\ [][NextLock]_vars

\* Any store: the LiveUpdate absent, being deleted, managed or Active under any
\* of the specs, and every dependency absent or present.
InitRec ==
    /\ config = DefaultConfig
    /\ now = 1
    /\ luExists \in BOOLEAN
    /\ lu \in [deleted : BOOLEAN, managed : BOOLEAN, spec : LUSpecs]
    /\ luExists = FALSE => lu = [deleted |-> FALSE, managed |-> FALSE, spec |-> SpecFiles]
    /\ luStatus = EmptyStatus
    /\ fws \in [FWNames -> [exists : BOOLEAN, events : EventLists(MaxInitEvents)]]
    /\ \A w \in FWNames : \A i \in 1..Len(fws[w].events) : fws[w].events[i].time <= now
    /\ \A w \in FWNames : ~fws[w].exists => fws[w].events = <<>>
    /\ k8s \in [KKinds -> [exists : BOOLEAN, status : {0}]]
    /\ InitProgram
    /\ InitNoLogs

\* Reconcile passes over an unchanging store.
NextRec ==
    \/ RecLock
    \/ RecBody

SpecRec == InitRec /\ [][NextRec]_vars

\* A Reconciler of any configuration over the store of Init.
InitUpdater ==
    /\ config \in Configs
    /\ InitStore
    /\ InitProgram
    /\ InitNoLogs

\* One caller of ForceApply at a time, with docker-compose and cluster targets.
NextUpdater ==
    \/ FAGet("fa1", UpdaterInputs)
    \/ FALock("fa1")
    \/ FABegin("fa1")
    \/ FAUpdateContainer("fa1")
    \/ FAStamp("fa1")
    \/ FAWrite("fa1")

SpecUpdater == InitUpdater /\ [][NextUpdater]_vars

\* A LogStreamer with any filter of resource names, before its first view.
InitLogs ==
    /\ config = DefaultConfig
    /\ InitStore
    /\ InitProgram
    /\ serverLog = <<>>
    /\ \E resources \in SUBSET (ManifestNames \ {""}) : ls = NewLogStreamer(resources)

\* The server's log grows and the LogStreamer handles the views sent to it.
NextLogs ==
    \/ LogAppend
    \/ LogHandle

SpecLogs == InitLogs /\ [][NextLogs]_vars

\* An Active LiveUpdate with a kubernetes selector, none of whose kubernetes
\* dependencies is in the store yet.
InitKube ==
    /\ config = DefaultConfig
    /\ now = 1
    /\ luExists = TRUE
    /\ \E spec \in {SpecAll, SpecDiscovery} :
        lu = [deleted |-> FALSE, managed |-> FALSE, spec |-> spec]
    /\ luStatus = EmptyStatus
    /\ fws = [w \in FWNames |->
                [exists |-> w = "fw1",
                 events |-> IF w = "fw1" THEN <<[time |-> 1, files |-> <<"/a">>]>> ELSE <<>>]]
    /\ k8s = [k \in KKinds |-> [exists |-> FALSE, status |-> 0]]
    /\ InitProgram
    /\ InitNoLogs

\* Reconcile passes while the kubernetes dependencies come, change and go.
NextKube ==
    \/ RecLock
    \/ RecBody
    \/ EnvKubernetes

SpecKube == InitKube /\ [][NextKube]_vars

\* An Active LiveUpdate over two FileWatches, the first with no event yet and
\* the second not in the store yet.
InitWatch ==
    /\ config = DefaultConfig
    /\ now = 1
    /\ luExists = TRUE
    /\ lu = [deleted |-> FALSE, managed |-> FALSE, spec |-> SpecAll]
    /\ luStatus = EmptyStatus
    /\ fws = [w \in FWNames |-> [exists |-> w = "fw1", events |-> <<>>]]
    /\ k8s = [k \in KKinds |-> [exists |-> FALSE, status |-> 0]]
    /\ InitProgram
    /\ InitNoLogs

\* Reconcile passes, with transport errors on the fetches of the FileWatches,
\* while the FileWatches come and report events.
NextWatch ==
    \/ RecLock
    \/ RecBodyOver(FWNames)
    \/ EnvFileWatch

SpecWatch == InitWatch /\ [][NextWatch]_vars

\* One caller of ForceApply, over batches of up to MaxContainers containers,
\* and the controller's Reconcile passes.
NextFrame ==
    \/ FAGet("fa1", Inputs)
    \/ FALock("fa1")
    \/ FABegin("fa1")
    \/ FAUpdateContainer("fa1")
    \/ FAStamp("fa1")
    \/ FAWrite("fa1")
    \/ RecLock
    \/ RecBody

SpecFrame == Init /\ [][NextFrame]_vars

\* Reconcile passes over a LiveUpdate that comes, changes and goes.
NextLife ==
    \/ RecLock
    \/ RecBody
    \/ EnvLiveUpdate

SpecLife == Init /\ [][NextLife]_vars

\* ------------------------------------------------------------- claims

\* applyInternal of p has returned and apply has not yet written.
Returned(p) == pc[p] \in {"applied", "stamped"}

\* C1 as stated: in every status applyInternal returns and in every status
\* written to the store, a failure descriptor comes with an empty Containers list.
C1_FailedExcludesContainers ==
    /\ \A p \in FAProcs :
        Returned(p) /\ IsFailed(result[p]) => result[p].containers = <<>>
    /\ IsFailed(luStatus) => luStatus.containers = <<>>

\* A failed status lists exactly the containers updated before the one the batch
\* was aborted on, and none when the reason is Invalid.
FailedListsEarlierContainers(st) ==
    IsFailed(st) =>
        /\ st.failed.reason = "Invalid" => st.containers = <<>>
        /\ st.failed.reason # "Invalid" =>
            /\ Len(st.containers) = st.failed.message.pod - 1
            /\ \A i \in 1..Len(st.containers) : st.containers[i].id = i

\* C1 amended: whenever Failed is set, the Containers list holds exactly the
\* entries of the containers updated before the container on which the batch was
\* aborted: it is empty when the reason is Invalid or the abort came on the first
\* container, and never holds the aborting container or a later one.
C1_FailedKeepsEarlierContainers ==
    /\ \A p \in FAProcs : Returned(p) => FailedListsEarlierContainers(result[p])
    /\ FailedListsEarlierContainers(luStatus)

\* C1 witness: applyInternal has returned a failure after an earlier container
\* was updated, so the failed status carries a container entry.
C1_Witness ==
    \E p \in FAProcs :
        /\ pc[p] = "applied"
        /\ result[p].failed.reason = "UpdateFailed"
        /\ Len(calls[p]) = 2
        /\ Len(result[p].containers) = 1

\* C2 as stated: a batch of exactly two containers, one updated with no error and
\* one reporting a run-step failure, ends PodsInconsistent in either order.
C2_MixedPairIsInconsistent ==
    \A p \in FAProcs :
        ( /\ pc[p] = "applied"
          /\ inp[p].n = 2
          /\ Len(calls[p]) = 2
          /\ {calls[p][1].outcome, calls[p][2].outcome} = {"ok", "runfail"} )
        => result[p].failed.reason = "PodsInconsistent"

\* C3 as stated: UpdateContainer is invoked on the containers in input order, on
\* all of them when none returns a non-run-step error, and otherwise up to and
\* including the first one that does.
C3_ContactsAllUnlessOtherError ==
    \A p \in FAProcs :
        (pc[p] = "applied" /\ prep[p] = "ok") =>
            LET k == Len(calls[p])
            IN  /\ \A i \in 1..k : calls[p][i].id = i
                /\ \A i \in 1..(k - 1) : calls[p][i].outcome # "error"
                /\ \/ k = inp[p].n
                   \/ k >= 1 /\ calls[p][k].outcome = "error"

\* C4: when every container of a batch of one or more reports a run-step
\* failure, the status has no failure descriptor and one entry per target
\* container, in input order, each with its exec error recorded.
C4_UniformRunFailureIsNoFailure ==
    \A p \in FAProcs :
        ( /\ pc[p] = "applied"
          /\ prep[p] = "ok"
          /\ inp[p].n >= 1
          /\ \A i \in 1..Len(calls[p]) : calls[p][i].outcome = "runfail" )
        => /\ ~IsFailed(result[p])
           /\ Len(result[p].containers) = inp[p].n
           /\ \A i \in 1..inp[p].n :
                result[p].containers[i].id = i /\ result[p].containers[i].execErr

\* C4 witness: a batch of two or more containers, all with a run-step failure.
C4_Witness ==
    \E p \in FAProcs :
        /\ pc[p] = "applied"
        /\ inp[p].n >= 2
        /\ Len(calls[p]) = inp[p].n
        /\ \A i \in 1..Len(calls[p]) : calls[p][i].outcome = "runfail"

\* C5: when BoilRuns or MissingLocalPaths fails, applyInternal returns at once
\* with reason Invalid and UpdateContainer has been invoked on no container.
C5_InvalidContactsNoContainer ==
    \A p \in FAProcs :
        prep[p] \in {"boil", "map"} =>
            /\ Returned(p)
            /\ result[p].failed.reason = "Invalid"
            /\ result[p].containers = <<>>
            /\ calls[p] = <<>>

\* C5 witness: the path mapping failed for a batch with target containers.
C5_Witness ==
    \E p \in FAProcs : pc[p] = "applied" /\ prep[p] = "map" /\ inp[p].n >= 2

\* C6 as stated: an Active pass runs the Sync Engine exactly once when a delta
\* detector reported a change in it, and not at all otherwise.
C6_ChangeSyncsOnce ==
    (recOut.done /\ recOut.branch = "active" /\ ~recOut.err) =>
        recOut.applyCalls =
            (IF recOut.hasFileChanges \/ recOut.hasKubernetesChanges THEN 1 ELSE 0)

\* C7: apply issues the status write exactly when the computed status, with its
\* transition time assigned, differs from the status of the object as read; with
\* no write the stored status stays as it is.
C7_WritesIffStatusDiffers ==
    [][\A p \in FAProcs :
        (pc[p] = "stamped" /\ pc'[p] = "idle") =>
            /\ wrote'[p] <=> result[p] # obj[p]
            /\ ~wrote'[p] => luStatus' = luStatus]_vars

\* C7 witness: an apply has returned without a write although the stored status
\* is not the empty one: it computed the stored failure again.
C7_Witness ==
    \E p \in FAProcs :
        /\ ret[p].done /\ ~ret[p].err /\ ~wrote[p]
        /\ pc[p] = "idle"
        /\ IsFailed(luStatus)

\* C8 as stated: a failure computed by apply keeps the transition time of the
\* stored failure when the stored failure has the same reason, and gets the
\* current time when the stored status has another reason or no failure.
C8_TransitionTimeFollowsStored ==
    [][\A p \in FAProcs :
        (pc[p] = "applied" /\ pc'[p] = "stamped" /\ IsFailed(result'[p])) =>
            result'[p].failed.time =
                (IF luStatus.failed.reason = result'[p].failed.reason
                 THEN luStatus.failed.time ELSE now)]_vars

\* Between the return of r.mu.Lock() in ForceApply and the return of applyInternal.
InSyncEngine(p) == pc[p] \in {"locked", "loop"}

\* C9: no two Sync Engine invocations overlap, and none overlaps with a
\* Reconcile pass that holds the monitor table.
C9_SyncEngineSerialized ==
    /\ Cardinality({p \in FAProcs : InSyncEngine(p)}) <= 1
    /\ \A p \in FAProcs : InSyncEngine(p) => pc[RecProc] # "locked"
    /\ \A p \in Procs : pc[p] \notin {"idle", "got"} => mu = p

\* C9 witness: one caller is inside the loop of applyInternal while the other
\* ForceApply caller and a Reconcile pass both wait for the mutex.
C9_Witness ==
    /\ pc["fa1"] = "loop"
    /\ pc["fa2"] = "got"
    /\ pc[RecProc] = "idle"
    /\ monitors[LUName].present

\* C10: a pass returns an error exactly when one of the fetches it made failed
\* with an error other than not-found, and that fetch is the last it made.
C10_PassErrorIffFetchError ==
    recOut.done =>
        /\ recOut.err <=> \E i \in 1..Len(recOut.fetched) : recOut.fetched[i].res = "error"
        /\ \A i \in 1..(Len(recOut.fetched) - 1) : recOut.fetched[i].res # "error"

\* C10 witness: an Active pass met a dependency that is not in the store, went
\* on to fetch another one, and returned no error.
C10_Witness ==
    /\ recOut.done /\ ~recOut.err /\ recOut.branch = "active"
    /\ Len(recOut.fetched) >= 3
    /\ recOut.fetched[2].res = "notfound"

\* A step that is a whole Reconcile pass, from the Lock to the return.
RecPass == pc[RecProc] = "locked" /\ pc'[RecProc] = "idle"

\* C11: a pass whose fetch is not-found, or whose object carries a deletion
\* timestamp, dispatches the delete notification, leaves no monitor under the
\* name and returns no error; and an Active pass that finds no monitor under
\* the name starts from an empty one.
C11_DeletedPassDropsMonitor ==
    [][RecPass =>
        /\ (\/ recOut'.fetched[1].res = "notfound"
            \/ recOut'.fetched[1].res = "ok" /\ lu.deleted)
           => /\ recOut'.dispatched = "delete"
              /\ ~monitors'[LUName].present
              /\ ~recOut'.err
        /\ (~monitors[LUName].present /\ recOut'.branch = "active")
           => recOut'.startedEmpty]_vars

\* C11 witness: a pass over an object marked for deletion has thrown away the
\* monitor an earlier pass had stored.
C11_Witness ==
    /\ recOut.done /\ recOut.branch = "deleted" /\ ~recOut.err
    /\ recOut.fetched[1].res = "ok"
    /\ recOut.hadMonitor
    /\ ~monitors[LUName].present

\* C12: a pass over a LiveUpdate whose managed-by annotation is set dispatches
\* the upsert notification and does nothing else: it fetches no dependency,
\* calls neither the Sync Engine nor a container updater, writes no status and
\* leaves the monitor table as it was.
C12_ManagedPassOnlyPublishes ==
    [][(RecPass /\ recOut'.fetched[1].res = "ok" /\ ~lu.deleted /\ lu.managed) =>
        /\ recOut'.dispatched = "upsert"
        /\ Len(recOut'.fetched) = 1
        /\ ~recOut'.synced
        /\ recOut'.applyCalls = 0
        /\ recOut'.mutations = <<>>
        /\ ~recOut'.err
        /\ luStatus' = luStatus
        /\ monitors' = monitors]_vars

\* C12 witness: a pass over a managed LiveUpdate has returned and the monitor
\* an earlier Active pass stored, with the event it consumed, is still there.
C12_Witness ==
    /\ recOut.done /\ recOut.branch = "managed"
    /\ recOut.hadMonitor
    /\ monitors[LUName].present
    /\ monitors[LUName].lastFileEvents["fw1"] # NoEvent

\* The updater the selection rule names: mechanism A ("docker") when IsDC is
\* set or the mode is Container; else mechanism B ("exec") when the mode is
\* KubectlExec; else A if the Docker updater can build to the kube context, B if not.
SelectedUpdater(isDC, mode, canBuild) ==
    CASE isDC \/ mode = "container" -> "docker"
      [] ~isDC /\ mode = "exec" -> "exec"
      [] OTHER -> IF canBuild THEN "docker" ELSE "exec"

\* C13: once applyInternal has selected its updater, the updater is the one the
\* rule names for (IsDC, update mode, can build to the kube context), and every
\* UpdateContainer call of the batch went to that updater.
C13_UpdaterSelectedOncePerApply ==
    \A p \in FAProcs :
        pc[p] \in {"loop", "applied", "stamped"} =>
            /\ cu[p] = SelectedUpdater(inp[p].isDC, config.updateMode,
                                       config.isDockerUpdater /\ config.willBuildToKubeContext)
            /\ \A i \in 1..Len(calls[p]) : calls[p][i].updater = cu[p]

\* C13 witness: in the automatic mode with a Docker updater that builds to the
\* kube context, a batch of two cluster containers went to the Docker updater.
C13_Witness ==
    /\ pc["fa1"] = "applied"
    /\ config.updateMode = "auto"
    /\ config.isDockerUpdater /\ config.willBuildToKubeContext
    /\ ~inp["fa1"].isDC
    /\ Len(calls["fa1"]) = 2
    /\ calls["fa1"][1].updater = "docker" /\ calls["fa1"][2].updater = "docker"

\* The dependency keys of a spec: one per FileWatch name, and on a present
\* kubernetes selector one for each of the discovery, apply and image-map names
\* that is not empty.
DependencyKeys(spec) ==
    {[kind |-> "FileWatch", name |-> spec.fileWatchNames[i]] : i \in 1..Len(spec.fileWatchNames)}
    \cup {[kind |-> "KubernetesDiscovery", name |-> spec.discoveryName] :
            x \in {y \in {1} : spec.kubernetes /\ spec.discoveryName # ""}}
    \cup {[kind |-> "KubernetesApply", name |-> spec.applyName] :
            x \in {y \in {1} : spec.kubernetes /\ spec.applyName # ""}}
    \cup {[kind |-> "ImageMap", name |-> spec.imageMapName] :
            x \in {y \in {1} : spec.kubernetes /\ spec.imageMapName # ""}}

\* C14: every pass, whatever its fetch returned and whichever way it went on,
\* leaves the index holding exactly the dependency keys of the spec it fetched,
\* each once, and none when the fetch found no object.
C14_IndexRefreshedEveryPass ==
    [][RecPass =>
        LET spec == IF recOut'.fetched[1].res = "ok" THEN lu.spec ELSE EmptySpec
        IN  /\ {index'[i] : i \in 1..Len(index')} = DependencyKeys(spec)
            /\ Len(index') = Cardinality(DependencyKeys(spec))
            /\ recOut'.fetched[1].res = "notfound" => index' = <<>>]_vars

\* C14 witness: a pass whose fetch was not-found has emptied the index that an
\* earlier pass, which stored a monitor, had filled.
C14_Witness ==
    /\ recOut.done /\ recOut.fetched[1].res = "notfound"
    /\ recOut.hadMonitor
    /\ index = <<>>

\* C15: what the LogStreamer has printed is, in checkpoint order and each
\* once, exactly the segments below its checkpoint that pass its filter of
\* resource names: no segment sent again is printed again, no segment is
\* skipped, and the checkpoint has moved over the segments the filter left out.
C15_SegmentsPrintedOnceInOrder ==
    /\ \A i \in 1..(Len(ls.printed) - 1) : ls.printed[i].at < ls.printed[i + 1].at
    /\ \A i \in 1..Len(ls.printed) :
        /\ ls.printed[i].manifestName = serverLog[ls.printed[i].at]
        /\ Shown(ls.resources, ls.printed[i])
    /\ {ls.printed[i].at : i \in 1..Len(ls.printed)}
         = {k \in 1..ls.checkpoint : ls.resources = {} \/ serverLog[k] \in ls.resources}
    /\ ls.checkpoint = ls.lastView.to

\* C15 witness: a streamer filtering on "foo" has handled a view that sent
\* again segments it had passed and a new one; below its checkpoint are a
\* segment it printed and one the filter left out.
C15_Witness ==
    /\ ls.resources = {"foo"}
    /\ ls.lastView.from = 0
    /\ ls.lastView.to = 3
    /\ serverLog = <<"foo", "bar", "foo">>
    /\ Len(ls.printed) = 2

\* C16 as stated: when the detectors of an Active pass have consumed new
\* information, the pass has made a sync attempt or has left the monitor
\* flagged as having changes to sync, so that a later pass syncs without a
\* further change of a dependency; also when a later fetch of the pass failed.
C16_ConsumedChangeIsFlagged ==
    (recOut.done /\ recOut.branch = "active" /\ recOut.consumed) =>
        recOut.synced \/ monitors[LUName].hasChangesToSync

\* The dependency kinds configured on the selector of a spec.
ConfiguredKinds(spec) ==
    {k \in KKinds :
        /\ spec.kubernetes
        /\ (k = "apply" => spec.applyName # "")
        /\ (k = "discovery" => spec.discoveryName # "")
        /\ (k = "image" => spec.imageMapName # "")}

\* The monitor's last-seen snapshot of a dependency kind.
SnapshotOf(m, k) ==
    CASE k = "apply" -> m.lastKubernetesApplyStatus
      [] k = "discovery" -> m.lastKubernetesDiscovery
      [] k = "image" -> m.lastImageMapStatus

\* C17 as stated: in a pass without error, reconcileKubernetesResource reports
\* a change exactly when some configured dependency that is in the store has a
\* status different from the monitor's snapshot of it (a missing snapshot
\* counting as different); a dependency that is not-found suppresses nothing.
C17_ChangeIffSomeKindDiffers ==
    [][(RecPass /\ recOut'.branch = "active" /\ ~recOut'.err) =>
        LET m0 == ensureMonitorExists(monitors[LUName], lu.spec)
        IN  recOut'.hasKubernetesChanges <=>
                \E k \in ConfiguredKinds(lu.spec) :
                    k8s[k].exists /\ SnapshotOf(m0, k) # k8s[k].status]_vars

\* C18 as stated: after a pass without error, the monitor's snapshot of every
\* configured dependency the pass fetched from the store equals the status
\* fetched, and the snapshot of every kind that is not configured is empty.
C18_SnapshotsFollowFetches ==
    [][(RecPass /\ recOut'.branch = "active" /\ ~recOut'.err) =>
        LET m == monitors'[LUName]
            name == [apply |-> m.spec.applyName, discovery |-> m.spec.discoveryName,
                     image |-> m.spec.imageMapName]
        IN  \A k \in KKinds :
                /\ k \notin ConfiguredKinds(m.spec) => SnapshotOf(m, k) = NoSnapshot
                /\ (\E i \in 1..Len(recOut'.fetched) :
                        recOut'.fetched[i] = [obj |-> name[k], res |-> "ok"])
                   => SnapshotOf(m, k) = k8s[k].status]_vars

\* Every dependency configured on the selector of a spec is in the store.
AllConfiguredExist(spec) == \A k \in ConfiguredKinds(spec) : k8s[k].exists

\* C17 amended: in a pass without error, reconcileKubernetesResource reports a
\* change exactly when every configured dependency is in the store and at
\* least one of them has a status different from the monitor's snapshot of it
\* (a missing snapshot counting as different); while a configured dependency
\* is not-found it reports no change, whatever the other kinds show.
C17_ChangeIffAllFoundAndSomeDiffers ==
    [][(RecPass /\ recOut'.branch = "active" /\ ~recOut'.err) =>
        LET m0 == ensureMonitorExists(monitors[LUName], lu.spec)
        IN  recOut'.hasKubernetesChanges <=>
                /\ AllConfiguredExist(lu.spec)
                /\ \E k \in ConfiguredKinds(lu.spec) : SnapshotOf(m0, k) # k8s[k].status]_vars

\* C17 witness: a pass that found the KubernetesApply with a status the monitor
\* has not seen and did not find the KubernetesDiscovery reported no change.
C17_Witness ==
    /\ recOut.done /\ recOut.branch = "active" /\ ~recOut.err
    /\ \E i \in 1..Len(recOut.fetched) : recOut.fetched[i] = [obj |-> "ka", res |-> "ok"]
    /\ \E i \in 1..Len(recOut.fetched) : recOut.fetched[i] = [obj |-> "kd", res |-> "notfound"]
    /\ ~recOut.hasKubernetesChanges
    /\ k8s["apply"].exists /\ ~k8s["discovery"].exists
    /\ monitors[LUName].lastKubernetesApplyStatus # k8s["apply"].status

\* C18 amended: after a pass without error in which every configured
\* dependency was found, the monitor's snapshot of each configured kind equals
\* the status just fetched, whether or not it compared equal, so that a pass
\* following at once reports no kubernetes change; when a configured
\* dependency was not-found, all three snapshots are as they were before the
\* pass. The snapshot of a kind that is not configured is always empty.
C18_SnapshotsFollowCompleteFetches ==
    [][(RecPass /\ recOut'.branch = "active" /\ ~recOut'.err) =>
        LET m0 == ensureMonitorExists(monitors[LUName], lu.spec)
            m == monitors'[LUName]
        IN  /\ \A k \in KKinds \ ConfiguredKinds(lu.spec) : SnapshotOf(m, k) = NoSnapshot
            /\ AllConfiguredExist(lu.spec) =>
                /\ \A k \in ConfiguredKinds(lu.spec) : SnapshotOf(m, k) = k8s[k].status
                /\ ~reconcileKubernetesResource(m, {}).changed
            /\ ~AllConfiguredExist(lu.spec) =>
                \A k \in KKinds : SnapshotOf(m, k) = SnapshotOf(m0, k)]_vars

\* C18 witness: a pass has found all three dependencies, the KubernetesApply
\* with a status other than the one the monitor held, and the monitor now
\* holds the statuses of the three.
C18_Witness ==
    /\ recOut.done /\ recOut.branch = "active" /\ ~recOut.err
    /\ recOut.hadMonitor /\ ~recOut.startedEmpty
    /\ recOut.hasKubernetesChanges
    /\ \A k \in KKinds : k8s[k].exists
    /\ k8s["apply"].status = 1
    /\ \A k \in KKinds : SnapshotOf(monitors[LUName], k) = k8s[k].status

\* A FileWatch that holds nothing new for the monitor: it is not in the store,
\* or has no event, or its most recent event equals the recorded last event.
NoNews(m, w) ==
    \/ ~fws[w].exists
    \/ fws[w].events = <<>>
    \/ /\ m.lastFileEvents[w] # NoEvent
       /\ fws[w].events[Len(fws[w].events)] = m.lastFileEvents[w]

\* C19: for a FileWatch that holds nothing new, reconcileOneFileWatch returns
\* false and leaves the monitor as it is; a pass all of whose FileWatches hold
\* nothing new reports no file change and leaves modTimeByPath and
\* lastFileEvents as they are; and every FileWatch a pass has fetched holds
\* nothing new for the pass that follows it over the same contents.
C19_ReobservationChangesNothing ==
    [][(RecPass /\ recOut'.branch = "active") =>
        LET m0 == ensureMonitorExists(monitors[LUName], lu.spec)
            m == monitors'[LUName]
            names == {lu.spec.fileWatchNames[i] : i \in 1..Len(lu.spec.fileWatchNames)}
        IN  /\ \A w \in FWNames :
                NoNews(m0, w) =>
                    /\ ~reconcileOneFileWatch(m0, w, {}).changed
                    /\ reconcileOneFileWatch(m0, w, {}).monitor = m0
            /\ (\A w \in names : NoNews(m0, w)) =>
                /\ ~recOut'.hasFileChanges
                /\ m.modTimeByPath = m0.modTimeByPath
                /\ m.lastFileEvents = m0.lastFileEvents
            /\ \A w \in names :
                (\E i \in 1..Len(recOut'.fetched) :
                    recOut'.fetched[i].obj = w /\ recOut'.fetched[i].res # "error")
                => NoNews(m, w)]_vars

\* C19 witness: a pass over a monitor that had recorded the last event of fw1
\* in an earlier pass has fetched fw1 with the same last event and reported
\* no file change.
C19_Witness ==
    /\ recOut.done /\ recOut.branch = "active" /\ ~recOut.err
    /\ recOut.hadMonitor /\ ~recOut.startedEmpty
    /\ ~recOut.hasFileChanges
    /\ Len(fws["fw1"].events) = 2
    /\ monitors[LUName].lastFileEvents["fw1"] = fws["fw1"].events[2]

\* The latest time among the events of a set that list the path (0: none).
LatestTime(events, path) ==
    LET times == {e.time : e \in {c \in events :
                                    \E i \in 1..Len(c.files) : c.files[i] = path}}
    IN  IF times = {} THEN 0 ELSE CHOOSE t \in times : \A u \in times : u <= t

\* C20: in every monitor the time stored for a path is the latest time among
\* the consumed events that list the path, in whatever order the events stood
\* in their lists and came over the passes and the FileWatches; and as long
\* as the monitor lives the time stored for a path never decreases.
C20_ModTimeIsLatestConsumed ==
    [][/\ monitors'[LUName].present =>
            \A f \in Paths :
                monitors'[LUName].modTimeByPath[f]
                    = LatestTime(monitors'[LUName].consumedEvents, f)
       /\ ( /\ monitors[LUName].present
            /\ monitors'[LUName].present
            /\ ~(RecPass /\ recOut'.startedEmpty) ) =>
            \A f \in Paths :
                monitors'[LUName].modTimeByPath[f] >= monitors[LUName].modTimeByPath[f]]_vars

\* C20 witness: the monitor has consumed the events of both FileWatches; the
\* last event recorded for each is of time 1, an event of time 2 came before
\* it, and the time stored for /a is 2.
C20_Witness ==
    /\ monitors[LUName].present
    /\ monitors[LUName].lastFileEvents["fw1"] = [time |-> 1, files |-> <<"/b", "/a">>]
    /\ monitors[LUName].lastFileEvents["fw2"] = [time |-> 1, files |-> <<"/a">>]
    /\ [time |-> 2, files |-> <<"/a">>] \in monitors[LUName].consumedEvents
    /\ monitors[LUName].modTimeByPath["/a"] = 2
    /\ monitors[LUName].modTimeByPath["/b"] = 1

\* A monitor none of whose maps and snapshots holds anything.
EmptyMonitor(m) ==
    /\ \A w \in FWNames : m.lastFileEvents[w] = NoEvent
    /\ \A f \in Paths : m.modTimeByPath[f] = 0
    /\ \A k \in KKinds : SnapshotOf(m, k) = NoSnapshot
    /\ m.containers = {}

\* C21: the monitor an Active pass works on is the stored monitor, as it is,
\* when that holds a spec equal to the fetched one, and otherwise a monitor of
\* the fetched spec whose maps and snapshots are empty; so a pass after a
\* change of spec that finds a FileWatch whose last event the old monitor
\* had recorded reports a file change and records the event again.
C21_SpecChangeResetsMonitor ==
    [][(RecPass /\ recOut'.branch = "active") =>
        LET old == monitors[LUName]
            m0 == ensureMonitorExists(old, lu.spec)
            names == {lu.spec.fileWatchNames[i] : i \in 1..Len(lu.spec.fileWatchNames)}
        IN  /\ (old.present /\ old.spec = lu.spec) => m0 = old
            /\ ~(old.present /\ old.spec = lu.spec) =>
                /\ m0.present /\ m0.spec = lu.spec
                /\ EmptyMonitor(m0)
                /\ ~m0.hasChangesToSync
                /\ recOut'.startedEmpty
            /\ ( /\ old.present /\ old.spec # lu.spec
                 /\ ~recOut'.err
                 /\ \E w \in names :
                        /\ fws[w].exists /\ fws[w].events # <<>>
                        /\ old.lastFileEvents[w] = fws[w].events[Len(fws[w].events)] )
               => /\ recOut'.hasFileChanges
                  /\ \A w \in names :
                        (fws[w].exists /\ fws[w].events # <<>>)
                        => monitors'[LUName].lastFileEvents[w]
                             = fws[w].events[Len(fws[w].events)]]_vars

\* C21 witness: a pass has thrown away a stored monitor of another spec that
\* had recorded the event of fw1, and has reported that event as a change
\* under the new spec.
C21_Witness ==
    /\ recOut.done /\ recOut.branch = "active" /\ ~recOut.err
    /\ recOut.discarded /\ recOut.startedEmpty
    /\ recOut.hasFileChanges
    /\ lu.spec = SpecAll
    /\ monitors[LUName].spec = SpecAll
    /\ monitors[LUName].lastFileEvents["fw1"] = fws["fw1"].events[1]

\* C22: after an Active pass that made a sync attempt the monitor's
\* hasChangesToSync is false, and whenever nobody holds the mutex the flag of
\* the stored monitor is false.
C22_FlagClearedAfterSync ==
    /\ (recOut.done /\ recOut.branch = "active" /\ recOut.synced)
           => ~monitors[LUName].hasChangesToSync
    /\ mu = "free" => ~monitors[LUName].hasChangesToSync

\* C22 witness: a pass that consumed the event of fw1 and made its sync
\* attempt has returned, and the mutex is free.
C22_Witness ==
    /\ recOut.done /\ recOut.branch = "active" /\ recOut.synced
    /\ recOut.hasFileChanges
    /\ monitors[LUName].present
    /\ monitors[LUName].lastFileEvents["fw1"] # NoEvent
    /\ mu = "free"

\* C23 as stated: while a ForceApply call holds the mutex, the status it
\* compares with and takes the transition time from is the stored status, and
\* so holds every write of an apply that ended before the call took the mutex.
C23_ApplyReadsStoredStatus ==
    \A p \in FAProcs :
        pc[p] \in {"locked", "loop", "applied", "stamped"} => obj[p] = luStatus

\* C24: a step of a ForceApply call leaves the monitor table and every field
\* of the stored monitor as they are, and with them the index and the objects
\* of the store other than the LiveUpdate's status.
C24_ForceApplyLeavesMonitors ==
    [][(\E p \in FAProcs : pc'[p] # pc[p] \/ ret'[p] # ret[p]) =>
        /\ monitors' = monitors
        /\ index' = index
        /\ <<luExists, lu, fws, k8s>>' = <<luExists, lu, fws, k8s>>]_vars

\* C24 witness: a ForceApply call that updated a container has written its
\* status and returned, and the monitor a pass had stored still holds the
\* event it recorded and no container.
C24_Witness ==
    /\ \E p \in FAProcs : ret[p].done /\ ~ret[p].err /\ wrote[p]
    /\ Len(luStatus.containers) = 1
    /\ monitors[LUName].present
    /\ monitors[LUName].lastFileEvents["fw1"] # NoEvent
    /\ monitors[LUName].containers = {}

====
